---- MODULE Spec2Model ----
(***************************************************************************)
(* SecureMyAI prompt firewall: the classifier (filters.py), the redactor   *)
(* (redactor.py) and the two request entry points (main_app.py prompt      *)
(* form, app/main.py POST /prompt).                                        *)
(*                                                                         *)
(* Text is a sequence of one-character strings.  Regular expressions are   *)
(* syntax trees interpreted by a backtracking matcher that enumerates the  *)
(* alternatives in the order Python's re module tries them, so the first   *)
(* result is the match re returns.                                         *)
(***************************************************************************)
EXTENDS Integers, Sequences, FiniteSets, TLC

\* ------------------------------------------------------------------------
\* Characters
\* ------------------------------------------------------------------------
UpperCase == <<"A","B","C","D","E","F","G","H","I","J","K","L","M",
               "N","O","P","Q","R","S","T","U","V","W","X","Y","Z">>
LowerCase == <<"a","b","c","d","e","f","g","h","i","j","k","l","m",
               "n","o","p","q","r","s","t","u","v","w","x","y","z">>

Range(f) == {f[k] : k \in DOMAIN f}

Upper == Range(UpperCase)
Letter == Range(LowerCase) \cup Upper
Digit == {"0","1","2","3","4","5","6","7","8","9"}
Space == {" ", "\t", "\n"}
WordChar == Letter \cup Digit \cup {"_"}

\* the lower-case and upper-case forms of the letters
LowerOf == [c \in Upper |-> LowerCase[CHOOSE k \in 1..26 : UpperCase[k] = c]]
UpperOf == [c \in Range(LowerCase) |-> UpperCase[CHOOSE k \in 1..26 : LowerCase[k] = c]]

\* str.lower() on one character
LowerChar(c) == IF c \in Upper THEN LowerOf[c] ELSE c

\* str.upper() on one character
UpperChar(c) == IF c \in Range(LowerCase) THEN UpperOf[c] ELSE c

\* str.lower()
Lower(s) == [k \in 1..Len(s) |-> LowerChar(s[k])]

\* s[i:j] with 1-based i and exclusive end j
Slice(s, i, j) == [k \in 1..(j - i) |-> s[i + k - 1]]

\* the `in` operator on strings: sub occurs in s
Contains(s, sub) ==
    \/ sub = <<>>
    \/ \E i \in 1..(Len(s) - Len(sub) + 1) :
          s[i] = sub[1] /\ \A k \in 2..Len(sub) : s[i + k - 1] = sub[k]

\* ------------------------------------------------------------------------
\* Regular expression syntax
\* ------------------------------------------------------------------------
Cls(S)        == [t |-> "cls", s |-> S]               \* [...]
NotCls(S)     == [t |-> "ncls", s |-> S]              \* [^...], \S
WB            == [t |-> "wb"]                         \* \b
Cat(rs)       == [t |-> "cat", a |-> rs]              \* r1 r2 ...
Alt(rs)       == [t |-> "alt", a |-> rs]              \* r1|r2|...
Rep(r, lo, hi) == [t |-> "rep", r |-> r, lo |-> lo, hi |-> hi, inf |-> FALSE]  \* r{lo,hi}, greedy
AtLeast(r, lo) == [t |-> "rep", r |-> r, lo |-> lo, hi |-> lo, inf |-> TRUE]    \* r{lo,}, greedy
Grp(n, r)     == [t |-> "grp", n |-> n, r |-> r]      \* capturing group n
Opt(r)        == Rep(r, 0, 1)                         \* r?
Plus(r)       == AtLeast(r, 1)                        \* r+
Star(r)       == AtLeast(r, 0)                        \* r*
Ch(c)         == Cls({c})
Str(s)        == Cat([k \in 1..Len(s) |-> Ch(s[k])])  \* a literal string

NoGroups == << <<>>, <<>>, <<>> >>

\* \b at position i of s (between s[i-1] and s[i])
AtWordBoundary(s, i) ==
    LET before == i > 1 /\ s[i - 1] \in WordChar
        after  == i <= Len(s) /\ s[i] \in WordChar
    IN  before # after

\* one character against a class under re.IGNORECASE
ClsMatch(S, c) == c \in S \/ LowerChar(c) \in S \/ UpperChar(c) \in S

RECURSIVE M(_, _, _, _)
RECURSIVE CatM(_, _, _, _, _)
RECURSIVE CatRest(_, _, _, _, _)
RECURSIVE AltM(_, _, _, _, _)
RECURSIVE RepM(_, _, _, _, _)
RECURSIVE RepRest(_, _, _, _, _)

\* All ways r matches s starting at i, as <<end, groups>>, in the order the
\* backtracking matcher tries them.
M(r, s, i, g) ==
    CASE r.t = "cls"  -> IF i <= Len(s) /\ ClsMatch(r.s, s[i])
                         THEN << <<i + 1, g>> >> ELSE <<>>
      [] r.t = "ncls" -> IF i <= Len(s) /\ ~ClsMatch(r.s, s[i])
                         THEN << <<i + 1, g>> >> ELSE <<>>
      [] r.t = "wb"   -> IF AtWordBoundary(s, i) THEN << <<i, g>> >> ELSE <<>>
      [] r.t = "cat"  -> CatM(r.a, 1, s, i, g)
      [] r.t = "alt"  -> AltM(r.a, 1, s, i, g)
      [] r.t = "rep"  -> RepM(r, 0, s, i, g)
      [] r.t = "grp"  -> LET inner == M(r.r, s, i, g)
                         IN  [k \in 1..Len(inner) |->
                                <<inner[k][1],
                                  [inner[k][2] EXCEPT ![r.n] = Slice(s, i, inner[k][1])]>>]

CatM(rs, k, s, i, g) ==
    IF k > Len(rs) THEN << <<i, g>> >>
    ELSE CatRest(rs, k, s, M(rs[k], s, i, g), 1)

CatRest(rs, k, s, heads, j) ==
    IF j > Len(heads) THEN <<>>
    ELSE CatM(rs, k + 1, s, heads[j][1], heads[j][2]) \o CatRest(rs, k, s, heads, j + 1)

AltM(rs, k, s, i, g) ==
    IF k > Len(rs) THEN <<>>
    ELSE M(rs[k], s, i, g) \o AltM(rs, k + 1, s, i, g)

RepM(r, n, s, i, g) ==
    (IF r.inf \/ n < r.hi THEN RepRest(r, n, s, M(r.r, s, i, g), 1) ELSE <<>>)
    \o (IF n >= r.lo THEN << <<i, g>> >> ELSE <<>>)

RepRest(r, n, s, heads, j) ==
    IF j > Len(heads) THEN <<>>
    ELSE RepM(r, n + 1, s, heads[j][1], heads[j][2]) \o RepRest(r, n, s, heads, j + 1)

NoMatch == <<0, 0, NoGroups>>

RECURSIVE Search(_, _, _)
\* re.search from position `from`: <<start, end, groups>> of the leftmost match
Search(r, s, from) ==
    IF from > Len(s) + 1 THEN NoMatch
    ELSE LET ms == M(r, s, from, NoGroups)
         IN  IF Len(ms) > 0 THEN <<from, ms[1][1], ms[1][2]>>
             ELSE Search(r, s, from + 1)

RECURSIVE Matches(_, _, _)
\* the non-overlapping matches scanned left to right (re.finditer)
Matches(r, s, from) ==
    LET m == Search(r, s, from)
    IN  IF m = NoMatch THEN <<>>
        ELSE <<m>> \o Matches(r, s, IF m[2] > m[1] THEN m[2] ELSE m[2] + 1)

\* re.findall: the whole match without groups, the group with one group,
\* the tuple of groups with several
FindAll(r, ngroups, s) ==
    LET ms == Matches(r, s, 1)
    IN  [k \in 1..Len(ms) |->
            CASE ngroups = 0 -> Slice(s, ms[k][1], ms[k][2])
              [] ngroups = 1 -> ms[k][3][1]
              [] OTHER       -> [n \in 1..ngroups |-> ms[k][3][n]]]

RECURSIVE Splice(_, _, _, _, _)
\* s with the k-th match replaced by repls[k]
Splice(s, ms, repls, k, from) ==
    IF k > Len(ms) THEN Slice(s, from, Len(s) + 1)
    ELSE Slice(s, from, ms[k][1]) \o repls[k] \o Splice(s, ms, repls, k + 1, ms[k][2])

\* re.sub with a constant replacement
Sub(r, repl, s) ==
    LET ms == Matches(r, s, 1)
    IN  Splice(s, ms, [k \in 1..Len(ms) |-> repl], 1, 1)


\* ------------------------------------------------------------------------
\* PromptFilter (filters.py)
\* ------------------------------------------------------------------------
D == Cls(Digit)
\* [-.\s]
SepCls == Cls({"-", "."} \cup Space)

\* r'\b[A-Za-z0-9._%+-]+@[A-Za-z0-9.-]+\.[A-Z|a-z]{2,}\b'
EmailRe ==
    Cat(<<WB, Plus(Cls(Letter \cup Digit \cup {".", "_", "%", "+", "-"})), Ch("@"),
          Plus(Cls(Letter \cup Digit \cup {".", "-"})), Ch("."),
          AtLeast(Cls(Letter \cup {"|"}), 2), WB>>)

\* r'\b(\+\d{1,3}[-.\s]?)?\(?\d{3}\)?[-.\s]?\d{3}[-.\s]?\d{4}\b'
PhoneRe ==
    Cat(<<WB, Opt(Grp(1, Cat(<<Ch("+"), Rep(D, 1, 3), Opt(SepCls)>>))),
          Opt(Ch("(")), Rep(D, 3, 3), Opt(Ch(")")), Opt(SepCls),
          Rep(D, 3, 3), Opt(SepCls), Rep(D, 4, 4), WB>>)

\* r'\b\d{3}-\d{2}-\d{4}\b'
SsnRe ==
    Cat(<<WB, Rep(D, 3, 3), Ch("-"), Rep(D, 2, 2), Ch("-"), Rep(D, 4, 4), WB>>)

\* r'\b\d{4}[-.\s]?\d{4}[-.\s]?\d{4}[-.\s]?\d{4}\b'
CreditCardRe ==
    Cat(<<WB, Rep(D, 4, 4), Opt(SepCls), Rep(D, 4, 4), Opt(SepCls),
          Rep(D, 4, 4), Opt(SepCls), Rep(D, 4, 4), WB>>)

\* r'\b\d{1,3}\.\d{1,3}\.\d{1,3}\.\d{1,3}\b'
IpAddressRe ==
    Cat(<<WB, Rep(D, 1, 3), Ch("."), Rep(D, 1, 3), Ch("."),
          Rep(D, 1, 3), Ch("."), Rep(D, 1, 3), WB>>)

\* r'\b(0?[1-9]|1[0-2])[/-](0?[1-9]|[12]\d|3[01])[/-]\d{4}\b'
DateOfBirthRe ==
    LET d19 == Cls(Digit \ {"0"})
    IN  Cat(<<WB,
              Grp(1, Alt(<<Cat(<<Opt(Ch("0")), d19>>),
                           Cat(<<Ch("1"), Cls({"0", "1", "2"})>>)>>)),
              Cls({"/", "-"}),
              Grp(2, Alt(<<Cat(<<Opt(Ch("0")), d19>>),
                           Cat(<<Cls({"1", "2"}), D>>),
                           Cat(<<Ch("3"), Cls({"0", "1"})>>)>>)),
              Cls({"/", "-"}), Rep(D, 4, 4), WB>>)

\* r'\b\d+\s+[A-Za-z\s]+(?:Street|St|Avenue|Ave|Road|Rd|Boulevard|Blvd|Lane|Ln|Drive|Dr)\b'
AddressRe ==
    Cat(<<WB, Plus(D), Plus(Cls(Space)), Plus(Cls(Letter \cup Space)),
          Alt(<<
              Str(<<"S","t","r","e","e","t">>),
              Str(<<"S","t">>),
              Str(<<"A","v","e","n","u","e">>),
              Str(<<"A","v","e">>),
              Str(<<"R","o","a","d">>),
              Str(<<"R","d">>),
              Str(<<"B","o","u","l","e","v","a","r","d">>),
              Str(<<"B","l","v","d">>),
              Str(<<"L","a","n","e">>),
              Str(<<"L","n">>),
              Str(<<"D","r","i","v","e">>),
              Str(<<"D","r">>)
          >>), WB>>)

\* self.patterns, in dict insertion order; groups = number of capturing groups
patterns == <<
    [name |-> <<"e","m","a","i","l">>, re |-> EmailRe, groups |-> 0],
    [name |-> <<"p","h","o","n","e">>, re |-> PhoneRe, groups |-> 1],
    [name |-> <<"s","s","n">>, re |-> SsnRe, groups |-> 0],
    [name |-> <<"c","r","e","d","i","t","_","c","a","r","d">>, re |-> CreditCardRe, groups |-> 0],
    [name |-> <<"i","p","_","a","d","d","r","e","s","s">>, re |-> IpAddressRe, groups |-> 0],
    [name |-> <<"d","a","t","e","_","o","f","_","b","i","r","t","h">>, re |-> DateOfBirthRe, groups |-> 2],
    [name |-> <<"a","d","d","r","e","s","s">>, re |-> AddressRe, groups |-> 0]
>>

high_risk_keywords == <<
    <<"p","a","s","s","w","o","r","d">>,
    <<"s","e","c","r","e","t">>,
    <<"a","p","i","_","k","e","y">>,
    <<"t","o","k","e","n">>,
    <<"p","r","i","v","a","t","e","_","k","e","y">>,
    <<"s","s","h","_","k","e","y">>,
    <<"d","a","t","a","b","a","s","e","_","p","a","s","s","w","o","r","d">>,
    <<"a","d","m","i","n","_","p","a","s","s","w","o","r","d">>,
    <<"r","o","o","t","_","p","a","s","s","w","o","r","d">>,
    <<"m","a","s","t","e","r","_","k","e","y">>,
    <<"e","n","c","r","y","p","t","i","o","n","_","k","e","y">>,
    <<"d","e","c","r","y","p","t","i","o","n","_","k","e","y">>,
    <<"a","c","c","e","s","s","_","t","o","k","e","n">>,
    <<"r","e","f","r","e","s","h","_","t","o","k","e","n">>,
    <<"s","o","c","i","a","l","_","s","e","c","u","r","i","t","y">>,
    <<"s","s","n">>,
    <<"c","r","e","d","i","t","_","c","a","r","d">>,
    <<"c","v","v">>,
    <<"p","i","n">>,
    <<"p","a","s","s","p","o","r","t">>,
    <<"d","r","i","v","e","r","_","l","i","c","e","n","s","e">>,
    <<"b","a","n","k","_","a","c","c","o","u","n","t">>,
    <<"r","o","u","t","i","n","g","_","n","u","m","b","e","r">>,
    <<"s","w","i","f","t","_","c","o","d","e">>
>>

medium_risk_keywords == <<
    <<"p","e","r","s","o","n","a","l">>,
    <<"p","r","i","v","a","t","e">>,
    <<"c","o","n","f","i","d","e","n","t","i","a","l">>,
    <<"s","e","n","s","i","t","i","v","e">>,
    <<"i","n","t","e","r","n","a","l">>,
    <<"p","r","o","p","r","i","e","t","a","r","y">>,
    <<"c","l","a","s","s","i","f","i","e","d">>,
    <<"r","e","s","t","r","i","c","t","e","d">>,
    <<"s","e","c","u","r","e">>,
    <<"p","r","o","t","e","c","t","e","d">>
>>

\* an ordered dict is a sequence of [name, matches] records in insertion order
Keys(d) == [k \in 1..Len(d) |-> d[k].name]
HasKey(d, name) == \E k \in 1..Len(d) : d[k].name = name

RECURSIVE SumLen(_)
\* sum(len(matches) for matches in d.values())
SumLen(d) == IF d = <<>> THEN 0 ELSE Len(Head(d).matches) + SumLen(Tail(d))

RECURSIVE Join(_, _)
\* sep.join(items)
Join(sep, items) ==
    IF items = <<>> THEN <<>>
    ELSE IF Len(items) = 1 THEN items[1]
    ELSE items[1] \o sep \o Join(sep, Tail(items))

detect_pii(text) ==
    LET found == [k \in 1..Len(patterns) |->
                    [name |-> patterns[k].name,
                     matches |-> FindAll(patterns[k].re, patterns[k].groups, text)]]
    IN  SelectSeq(found, LAMBDA e : e.matches # <<>>)

check_keywords(text) ==
    LET text_lower == Lower(text)
    IN  [high   |-> SelectSeq(high_risk_keywords, LAMBDA k : Contains(text_lower, k)),
         medium |-> SelectSeq(medium_risk_keywords, LAMBDA k : Contains(text_lower, k))]

\* risk_level_of with the PII branch of line 93 dropped: only keywords make a
\* prompt without ssn / credit_card medium
risk_level_keywords_only(pii_detected, keywords_found) ==
    IF HasKey(pii_detected, <<"s","s","n">>) \/ HasKey(pii_detected, <<"c","r","e","d","i","t","_","c","a","r","d">>)
    THEN "high"
    ELSE IF keywords_found.high # <<>> \/ keywords_found.medium # <<>>
    THEN "medium"
    ELSE "low"

\* lines 87-95: the risk level of the findings
risk_level_of(pii_detected, keywords_found) ==
    IF HasKey(pii_detected, <<"s","s","n">>) \/ HasKey(pii_detected, <<"c","r","e","d","i","t","_","c","a","r","d">>)
    THEN "high"
    ELSE IF pii_detected # <<>> \/ keywords_found.high # <<>>
            \/ keywords_found.medium # <<>>
    THEN "medium"
    ELSE "low"

\* lines 97-105: the dict analyze_prompt returns
analysis_result(risk_level, pii_detected, keywords_found) ==
    [risk_level |-> risk_level,
     pii_detected |-> pii_detected,
     keywords_found |-> keywords_found,
     should_block |-> (risk_level = "high"),
     total_pii_count |-> SumLen(pii_detected),
     high_risk_keywords_count |-> Len(keywords_found.high),
     medium_risk_keywords_count |-> Len(keywords_found.medium)]

analysis_of(pii_detected, keywords_found) ==
    analysis_result(risk_level_of(pii_detected, keywords_found), pii_detected, keywords_found)

analyze_prompt(prompt) == analysis_of(detect_pii(prompt), check_keywords(prompt))

\* block_reasons with the PII reason of lines 122-124 dropped
block_reasons_keywords_only(analysis) ==
    IF analysis.keywords_found.high # <<>>
    THEN << <<"H","i","g","h","-","r","i","s","k"," ","k","e","y","w","o","r","d","s",":"," ">> \o Join(<<","," ">>, analysis.keywords_found.high) >>
    ELSE <<>>

\* lines 120-127: the reasons list
block_reasons(analysis) ==
    (IF analysis.pii_detected # <<>>
     THEN << <<"D","e","t","e","c","t","e","d"," ","P","I","I",":"," ">> \o Join(<<","," ">>, Keys(analysis.pii_detected)) >>
     ELSE <<>>)
    \o (IF analysis.keywords_found.high # <<>>
        THEN << <<"H","i","g","h","-","r","i","s","k"," ","k","e","y","w","o","r","d","s",":"," ">> \o Join(<<","," ">>, analysis.keywords_found.high) >>
        ELSE <<>>)

\* block_decision taking every risk level but low as a block
block_decision_not_low(analysis) ==
    IF analysis.risk_level # "low"
    THEN <<TRUE, Join(<<";"," ">>, block_reasons(analysis))>>
    ELSE <<FALSE, <<"N","o"," ","h","i","g","h","-","r","i","s","k"," ","c","o","n","t","e","n","t"," ","d","e","t","e","c","t","e","d">>>>

\* block_decision joining the reasons with ', '
block_decision_comma_joined(analysis) ==
    IF analysis.should_block
    THEN <<TRUE, Join(<<","," ">>, block_reasons(analysis))>>
    ELSE <<FALSE, <<"N","o"," ","h","i","g","h","-","r","i","s","k"," ","c","o","n","t","e","n","t"," ","d","e","t","e","c","t","e","d">>>>

\* lines 119-131: the decision on an analysis
block_decision(analysis) ==
    IF analysis.should_block
    THEN <<TRUE, Join(<<";"," ">>, block_reasons(analysis))>>
    ELSE <<FALSE, <<"N","o"," ","h","i","g","h","-","r","i","s","k"," ","c","o","n","t","e","n","t"," ","d","e","t","e","c","t","e","d">>>>

should_block_prompt(prompt) == block_decision(analyze_prompt(prompt))

\* classifier.py
classify_risk(prompt) == analyze_prompt(prompt).risk_level
get_detailed_analysis(prompt) == analyze_prompt(prompt)

\* ------------------------------------------------------------------------
\* PromptRedactor (redactor.py)
\* ------------------------------------------------------------------------
\* a redactor whose table lacks the 'ssn' detector
redaction_patterns_without_ssn ==
    SelectSeq(patterns, LAMBDA p : p.re # SsnRe)

\* self.redaction_patterns, in dict insertion order
redaction_patterns == <<
    [name |-> <<"e","m","a","i","l">>, re |-> EmailRe, groups |-> 0],
    [name |-> <<"p","h","o","n","e">>, re |-> PhoneRe, groups |-> 1],
    [name |-> <<"s","s","n">>, re |-> SsnRe, groups |-> 0],
    [name |-> <<"c","r","e","d","i","t","_","c","a","r","d">>, re |-> CreditCardRe, groups |-> 0],
    [name |-> <<"i","p","_","a","d","d","r","e","s","s">>, re |-> IpAddressRe, groups |-> 0],
    [name |-> <<"d","a","t","e","_","o","f","_","b","i","r","t","h">>, re |-> DateOfBirthRe, groups |-> 2],
    [name |-> <<"a","d","d","r","e","s","s">>, re |-> AddressRe, groups |-> 0]
>>

redact_keywords_list == <<
    <<"p","a","s","s","w","o","r","d">>,
    <<"s","e","c","r","e","t">>,
    <<"a","p","i","_","k","e","y">>,
    <<"t","o","k","e","n">>,
    <<"p","r","i","v","a","t","e","_","k","e","y">>,
    <<"s","s","h","_","k","e","y">>,
    <<"d","a","t","a","b","a","s","e","_","p","a","s","s","w","o","r","d">>,
    <<"a","d","m","i","n","_","p","a","s","s","w","o","r","d">>,
    <<"r","o","o","t","_","p","a","s","s","w","o","r","d">>,
    <<"m","a","s","t","e","r","_","k","e","y">>,
    <<"e","n","c","r","y","p","t","i","o","n","_","k","e","y">>,
    <<"d","e","c","r","y","p","t","i","o","n","_","k","e","y">>,
    <<"a","c","c","e","s","s","_","t","o","k","e","n">>,
    <<"r","e","f","r","e","s","h","_","t","o","k","e","n">>,
    <<"s","o","c","i","a","l","_","s","e","c","u","r","i","t","y">>,
    <<"s","s","n">>,
    <<"c","r","e","d","i","t","_","c","a","r","d">>,
    <<"c","v","v">>,
    <<"p","i","n">>,
    <<"p","a","s","s","p","o","r","t">>,
    <<"d","r","i","v","e","r","_","l","i","c","e","n","s","e">>,
    <<"b","a","n","k","_","a","c","c","o","u","n","t">>,
    <<"r","o","u","t","i","n","g","_","n","u","m","b","e","r">>,
    <<"s","w","i","f","t","_","c","o","d","e">>
>>

\* f'[REDACTED_{pattern_name.upper()}]'
PiiMarker(pattern_name) ==
    <<"[","R","E","D","A","C","T","E","D","_">> \o [k \in 1..Len(pattern_name) |-> UpperChar(pattern_name[k])] \o <<"]">>

KeywordMarker == <<"[","R","E","D","A","C","T","E","D","_","K","E","Y","W","O","R","D","]">>
SecretMarker == <<"[","R","E","D","A","C","T","E","D","_","S","E","C","R","E","T","]">>

RECURSIVE RedactPiiLoop(_, _, _, _)
\* one iteration of the loop of redact_pii for pattern p with its findall result
RedactPiiStep(k, text, redacted_text, redaction_mapping, p, found_matches) ==
    IF found_matches # <<>>
    THEN RedactPiiLoop(k + 1, text,
                       Sub(p.re, PiiMarker(p.name), redacted_text),
                       Append(redaction_mapping,
                              [name |-> p.name, matches |-> found_matches]))
    ELSE RedactPiiLoop(k + 1, text, redacted_text, redaction_mapping)

\* the loop of redact_pii from the k-th pattern on: findall on the original text
RedactPiiLoop(k, text, redacted_text, redaction_mapping) ==
    IF k > Len(redaction_patterns) THEN <<redacted_text, redaction_mapping>>
    ELSE RedactPiiStep(k, text, redacted_text, redaction_mapping, redaction_patterns[k],
                       FindAll(redaction_patterns[k].re, redaction_patterns[k].groups, text))

redact_pii(text) == RedactPiiLoop(1, text, text, <<>>)

RECURSIVE RedactKeywordsLoop(_, _, _, _)
\* the loop of redact_keywords from the k-th keyword on
RedactKeywordsLoop(k, text_lower, redacted_text, redacted_keywords) ==
    IF k > Len(redact_keywords_list) THEN <<redacted_text, redacted_keywords>>
    ELSE LET keyword == redact_keywords_list[k]
         IN  IF Contains(redacted_text, KeywordMarker) \/ Contains(redacted_text, SecretMarker)
             THEN RedactKeywordsLoop(k + 1, text_lower, redacted_text, redacted_keywords)
             ELSE IF Contains(text_lower, keyword)
             THEN RedactKeywordsLoop(k + 1, text_lower,
                                     Sub(Str(keyword), KeywordMarker, redacted_text),
                                     Append(redacted_keywords, keyword))
             ELSE RedactKeywordsLoop(k + 1, text_lower, redacted_text, redacted_keywords)

redact_keywords(text) == RedactKeywordsLoop(1, Lower(text), text, <<>>)

\* rf'\b({keywords})\b\s*(=|:|is)?\s*([\S]+)'
assignment_pattern ==
    Cat(<<WB,
          Grp(1, Alt([k \in 1..Len(redact_keywords_list) |-> Str(redact_keywords_list[k])])),
          WB, Star(Cls(Space)),
          Opt(Grp(2, Alt(<<Ch("="), Ch(":"), Str(<<"i", "s">>)>>))),
          Star(Cls(Space)),
          Grp(3, Plus(NotCls(Space)))>>)

\* f'[REDACTED_KEYWORD] {sep} [REDACTED_SECRET]' with sep = match.group(2) or ''
replacer(match) ==
    LET sep == match[3][2]
    IN  KeywordMarker \o <<" ">> \o sep \o <<" ">> \o SecretMarker

redact_secret_assignments(text) ==
    LET ms == Matches(assignment_pattern, text, 1)
    IN  Splice(text, ms, [k \in 1..Len(ms) |-> replacer(ms[k])], 1, 1)

\* lines 82-92: the counts and the dict redact_prompt returns
redaction_result_of(prompt, pii_mapping, final_redacted_text, keyword_mapping, total_redactions) ==
    [original_prompt |-> prompt,
     redacted_prompt |-> final_redacted_text,
     pii_redactions |-> pii_mapping,
     keyword_redactions |-> keyword_mapping,
     total_redactions |-> total_redactions,
     was_redacted |-> (total_redactions > 0)]

\* lines 82-84: total_redactions
total_redactions_of(pii_mapping, keyword_mapping) ==
    SumLen(pii_mapping) + Len(keyword_mapping)

\* lines 78-92, after the PII pass (pii) and the two keyword passes (kw)
redact_passes(prompt, pii, kw) ==
    redaction_result_of(prompt, pii[2], kw[1], kw[2], total_redactions_of(pii[2], kw[2]))

\* lines 76-80: the secret-assignment pass and the bare-keyword pass on the PII pass's text
redact_after_pii(prompt, pii) ==
    redact_passes(prompt, pii, redact_keywords(redact_secret_assignments(pii[1])))

redact_prompt(prompt) == redact_after_pii(prompt, redact_pii(prompt))

\* ------------------------------------------------------------------------
\* AdminAuth (app/auth/admin.py): the admin accounts in admin_config.json
\* ------------------------------------------------------------------------
VARIABLES
    admin_config,      \* the content of admin_config.json
    now,               \* datetime.now(), in minutes since the file was created
    admin_result       \* the AdminAuth call that just returned, with its
                       \* arguments and the dict it returned; <<>> before any

admin_vars == <<admin_config, now, admin_result>>

\* minutes the clock runs
MaxMinutes == 15

\* minutes between two readings of the clock
TickMinutes == 5

\* line 40
max_login_attempts == 3
\* line 41
lockout_duration_minutes == 15

\* the usernames typed into the login and user-management forms
Usernames == {"admin", "bob"}

\* the passwords typed
Passwords == {"admin123", "letmein"}

\* lines 49-51: sha256(password).hexdigest(); different passwords have
\* different digests
hash_password(password) == <<"sha256", password>>

\* lines 29-36 and 168-175: a user record as first stored
new_user(password, role, created_at) ==
    [password_hash |-> hash_password(password),
     role |-> role,
     created_at |-> created_at,
     last_login |-> <<>>,
     login_attempts |-> 0,
     locked_until |-> <<>>]

\* lines 27-44
default_config ==
    [admin_users |-> [u \in {"admin"} |-> new_user("admin123", "super_admin", 0)],
     system_config |-> [session_timeout_hours |-> 2,
                        max_login_attempts |-> max_login_attempts,
                        lockout_duration_minutes |-> lockout_duration_minutes,
                        enable_audit_log |-> TRUE]]

\* AdminAuth.__init__ with no admin_config.json yet
AdminInit ==
    /\ admin_config = default_config
    /\ now = 0
    /\ admin_result = <<>>


\* ------------------------------------------------------------------------
\* Model providers (app/llm/groq.py, app/llm/gemini.py)
\* ------------------------------------------------------------------------
\* What a call can meet: no API key in the environment, a reply, or a
\* failure of the HTTP request (timeout, transport, status, malformed body)
LlmOutcomes == {"key_not_set", "content", "error"}

\* result["choices"][0]["message"]["content"]: some reply text
ReplyText == <<"o","k">>
\* str(e) of the exception caught
ErrorText == <<"t","i","m","e","o","u","t">>

\* call_groq without the except clause of lines 26-27: the exception's text
\* is lost and nothing is returned
call_groq_no_except(outcome) ==
    CASE outcome = "key_not_set" -> <<"[","G","r","o","q"," ","A","P","I"," ","k","e","y"," ","n","o","t"," ","s","e","t","]">>
      [] outcome = "content"     -> ReplyText
      [] outcome = "error"       -> <<>>

call_groq(outcome) ==
    CASE outcome = "key_not_set" -> <<"[","G","r","o","q"," ","A","P","I"," ","k","e","y"," ","n","o","t"," ","s","e","t","]">>
      [] outcome = "content"     -> ReplyText
      [] outcome = "error"       -> <<"[","G","r","o","q"," ","A","P","I"," ","e","r","r","o","r","]"," ">> \o ErrorText

call_gemini(outcome) ==
    CASE outcome = "key_not_set" -> <<"[","G","e","m","i","n","i"," ","A","P","I"," ","k","e","y"," ","n","o","t"," ","s","e","t","]">>
      [] outcome = "content"     -> ReplyText
      [] outcome = "error"       -> <<"[","G","e","m","i","n","i"," ","A","P","I"," ","e","r","r","o","r","]"," ">> \o ErrorText

\* ------------------------------------------------------------------------
\* Inputs
\* ------------------------------------------------------------------------
\* words per prompt
MaxWords == 3

\* PII and keyword vocabulary
VocabPii == {
    <<"1","2","3","-","4","5","-","6","7","8","9">>,
    <<"1","2","3","4","5","6","7","8","9","0","1","2","3","4","5","6">>,
    <<"a","@","b",".","c","o">>,
    <<"S","S","N">>,
    <<"s","e","c","u","r","e">>
}

\* secret-assignment vocabulary; the last is two keywords typed without a space
VocabSecret == {
    <<"p","a","s","s","w","o","r","d">>,
    <<"t","o","k","e","n">>,
    <<"i","s">>,
    <<"h","u","n","t","e","r","2">>,
    <<"p","a","s","s","w","o","r","d","t","o","k","e","n">>
}

\* contact vocabulary: an email address, a phone number and a keyword
VocabContact == {
    <<"a","@","b",".","c","o">>,
    <<"5","5","5","-","1","2","3","-","4","5","6","7">>,
    <<"p","a","s","s","w","o","r","d">>
}

\* a text pasted back with a marker of an earlier redaction in it
PastedPrompts == {
    <<"[","R","E","D","A","C","T","E","D","_","K","E","Y","W","O","R","D","]"," ","t","o","k","e","n">>
}

RECURSIVE Phrases(_, _)
\* the texts of exactly n words of vocab separated by single spaces
Phrases(vocab, n) ==
    IF n = 1 THEN vocab
    ELSE {p \o <<" ">> \o w : p \in Phrases(vocab, n - 1), w \in vocab}

Prompts ==
    {<<>>}
    \cup UNION {Phrases(VocabPii, n) : n \in 1..MaxWords}
    \cup UNION {Phrases(VocabSecret, n) : n \in 1..MaxWords}
    \cup UNION {Phrases(VocabContact, n) : n \in 1..MaxWords}
    \cup PastedPrompts

\* ------------------------------------------------------------------------
\* State
\* ------------------------------------------------------------------------
VARIABLES
    prompt,            \* the text under test / the request's prompt
    pc,                \* which operation has run on it
    analysis,          \* analyze_prompt(prompt), <<>> before it ran
    block,             \* should_block_prompt(prompt), <<>> before it ran
    redaction,         \* redact_prompt(prompt), <<>> before it ran
    second_redaction,  \* redact_prompt of the redacted text, <<>> before it ran
    model_calls,       \* every call of call_groq / call_gemini: argument and what it met
    session_state,     \* st.session_state: result and error
    api_response,      \* the body POST /prompt returned, <<>> before it ran
    logs               \* the entries log_prompt_analysis stored

\* the audit store and its callers (app/logging/logger.py)
VARIABLES
    json_file,         \* logs/prompt_log.json: whether it exists, parses, and its list
    csv_file,          \* logs/prompt_log.csv: its rows
    clock,             \* datetime.now(): the number of timestamps handed out
    calls,             \* per caller, the log_prompt_analysis call in progress
    returned,          \* the log_prompt_analysis calls that returned, in order
    last_complete,     \* the list last dumped completely into json_file
    read_result        \* the read operation that just returned, with its result; <<>>
                       \* when none has, or the callers have moved since

request_vars == <<prompt, pc, analysis, block, redaction, second_redaction,
                  model_calls, session_state, api_response, logs>>

logger_vars == <<json_file, csv_file, clock, calls, returned, last_complete,
                 read_result>>

vars == <<request_vars, logger_vars, admin_vars>>

\* independent requests that may log at the same time (Streamlit sessions)
Callers == {"session1", "session2"}

\* PromptLogger.__init__ on a fresh log directory: the CSV file gets its
\* header row, the JSON file does not exist yet
LoggerInit ==
    /\ json_file = [exists |-> FALSE, valid |-> FALSE, logs |-> <<>>]
    /\ csv_file = <<"headers">>
    /\ clock = 0
    /\ calls = [c \in Callers |-> [pc |-> "idle", log_entry |-> <<>>, logs |-> <<>>]]
    /\ returned = <<>>
    /\ last_complete = <<>>
    /\ read_result = <<>>

Init ==
    /\ prompt \in Prompts
    /\ pc = "start"
    /\ analysis = <<>>
    /\ block = <<>>
    /\ redaction = <<>>
    /\ second_redaction = <<>>
    /\ model_calls = <<>>
    /\ session_state = [result |-> <<>>, error |-> <<>>]
    /\ api_response = <<>>
    /\ logs = <<>>
    /\ LoggerInit
    /\ AdminInit

\* ------------------------------------------------------------------------
\* The pure operations applied to the prompt
\* ------------------------------------------------------------------------
Analyze ==
    /\ pc = "start"
    /\ \E a \in {analyze_prompt(prompt)} :
          /\ analysis' = <<a>>
          /\ block' = <<block_decision(a)>>    \* should_block_prompt(prompt)
    /\ pc' = "analyzed"
    /\ UNCHANGED <<prompt, redaction, second_redaction, model_calls,
                   session_state, api_response, logs>>
    /\ UNCHANGED <<logger_vars, admin_vars>>

Redact ==
    /\ pc = "analyzed"
    /\ redaction' = <<redact_prompt(prompt)>>
    /\ pc' = "redacted"
    /\ UNCHANGED <<prompt, analysis, block, second_redaction, model_calls,
                   session_state, api_response, logs>>
    /\ UNCHANGED <<logger_vars, admin_vars>>

RedactAgain ==
    /\ pc = "redacted"
    /\ second_redaction' = <<redact_prompt(redaction[1].redacted_prompt)>>
    /\ pc' = "redacted_twice"
    /\ UNCHANGED <<prompt, analysis, block, redaction, model_calls,
                   session_state, api_response, logs>>
    /\ UNCHANGED <<logger_vars, admin_vars>>

\* ------------------------------------------------------------------------
\* PromptLogger.log_prompt_analysis (logger.py), the entry it builds
\* ------------------------------------------------------------------------
log_entry(p, detailed_analysis, should_block, block_reason, model_used, llm_response, redaction_result) ==
    [prompt |-> p,
     risk_level |-> detailed_analysis.risk_level,
     should_block |-> should_block,
     block_reason |-> block_reason,
     model_used |-> model_used,
     was_redacted |-> IF redaction_result # <<>>
                      THEN redaction_result[1].was_redacted ELSE FALSE,
     redacted_prompt |-> IF redaction_result # <<>>
                         THEN redaction_result[1].redacted_prompt ELSE <<>>,
     pii_detected |-> Keys(detailed_analysis.pii_detected),
     high_risk_keywords |-> detailed_analysis.keywords_found.high,
     medium_risk_keywords |-> detailed_analysis.keywords_found.medium,
     llm_response_length |-> Len(llm_response),
     redaction_details |-> redaction_result,
     llm_response |-> llm_response]

\* ------------------------------------------------------------------------
\* Streamlit prompt form (main_app.py)
\* ------------------------------------------------------------------------
\* f"... **PROMPT BLOCKED** ... **Reason:** {block_reason} ..."
BlockedMessage(block_reason) ==
    <<"U+1F6AB"," ","*","*","P","R","O","M","P","T"," ","B","L","O","C","K","E","D","*","*","\n","\n","*","*","R","e","a","s","o","n",":","*","*"," ">>
    \o block_reason
    \o <<"\n","\n","T","h","i","s"," ","p","r","o","m","p","t"," ","c","o","n","t","a","i","n","s"," ","s","e","n","s","i","t","i","v","e"," ","i","n","f","o","r","m","a","t","i","o","n"," ","a","n","d"," ","h","a","s"," ","b","e","e","n"," ","b","l","o","c","k","e","d"," ","f","o","r"," ","s","e","c","u","r","i","t","y"," ","r","e","a","s","o","n","s",".">>

PleaseEnterAPrompt == <<"P","l","e","a","s","e"," ","e","n","t","e","r"," ","a"," ","p","r","o","m","p","t",".">>

\* what the handler does once llm_response is known (lines 348-371): log, then
\* store the result in the session
FormFinish(llm_choice, detailed_analysis, should_block, block_reason, redaction_result, llm_response) ==
    /\ logs' = Append(logs, log_entry(prompt, detailed_analysis, should_block,
                                      block_reason, llm_choice, llm_response,
                                      redaction_result))
    /\ session_state' =
           [result |-> <<[detailed_analysis |-> detailed_analysis,
                          should_block |-> should_block,
                          block_reason |-> block_reason,
                          llm_response |-> llm_response,
                          model_used |-> llm_choice,
                          redaction_result |-> redaction_result]>>,
            error |-> <<>>]

\* lines 342-346: send prompt_to_send to the chosen provider
FormSend(llm_choice, outcome, detailed_analysis, should_block, block_reason, redaction_result, prompt_to_send) ==
    /\ model_calls' = Append(model_calls,
                             [fn |-> IF llm_choice = "groq" THEN "call_groq"
                                     ELSE "call_gemini",
                              prompt |-> prompt_to_send,
                              outcome |-> outcome])
    /\ FormFinish(llm_choice, detailed_analysis, should_block, block_reason,
                  redaction_result,
                  IF llm_choice = "groq" THEN call_groq(outcome) ELSE call_gemini(outcome))

LlmChoices == {"groq", "gemini"}

\* the calls inside the handler's try block that may raise before anything is
\* sent; "none" when none does
Raises == {"none", "get_detailed_analysis", "should_block_prompt", "redact_prompt"}

\* str(e) of an exception raised while scanning or redacting
ExceptionText == <<"e","x","p","e","c","t","e","d"," ","s","t","r","i","n","g">>

\* f"An unexpected error occurred: {e}"
UnexpectedError(e) == <<"A","n"," ","u","n","e","x","p","e","c","t","e","d"," ","e","r","r","o","r"," ","o","c","c","u","r","r","e","d",":"," ">> \o e

\* an except clause that sends the prompt as typed once scanning has failed
FormExcept_forwards(e) ==
    /\ model_calls' = Append(model_calls,
                             [fn |-> "call_groq", prompt |-> prompt, outcome |-> "content"])
    /\ session_state' = [result |-> <<>>, error |-> UnexpectedError(e)]
    /\ UNCHANGED logs

\* lines 372-373: the except clause of the handler; result stays None (line
\* 307), nothing was sent and nothing is logged
FormExcept(e) ==
    /\ session_state' = [result |-> <<>>, error |-> UnexpectedError(e)]
    /\ UNCHANGED <<model_calls, logs>>

\* a handler that redacts whatever the risk level
any_risk(detailed_analysis) == TRUE

\* line 333: detailed_analysis["risk_level"] == "medium"
medium_risk(detailed_analysis) == detailed_analysis.risk_level = "medium"

\* the submit handler; the LLM radio choice and what the provider call meets are
\* its inputs
SubmitPromptForm ==
    /\ pc = "start"
    /\ pc' = "form_done"
    /\ IF prompt = <<>>
       THEN /\ session_state' = [result |-> <<>>, error |-> PleaseEnterAPrompt]
            /\ UNCHANGED <<model_calls, logs>>
       ELSE \E raised \in Raises :
            IF raised \in {"get_detailed_analysis", "should_block_prompt"}
            THEN FormExcept(ExceptionText)
            ELSE
            \E detailed_analysis \in {get_detailed_analysis(prompt)},
               sb \in {should_block_prompt(prompt)} :
              IF sb[1]
              THEN \E llm_choice \in LlmChoices :
                      /\ UNCHANGED model_calls
                      /\ FormFinish(llm_choice, detailed_analysis, sb[1], sb[2], <<>>,
                                    BlockedMessage(sb[2]))
              ELSE IF medium_risk(detailed_analysis)
              THEN IF raised = "redact_prompt"
                   THEN FormExcept(ExceptionText)
                   ELSE
                   \E redaction_result \in {redact_prompt(prompt)} :
                   \E llm_choice \in LlmChoices, outcome \in LlmOutcomes :
                      FormSend(llm_choice, outcome, detailed_analysis, sb[1], sb[2],
                               <<redaction_result>>, redaction_result.redacted_prompt)
              ELSE \E llm_choice \in LlmChoices, outcome \in LlmOutcomes :
                      FormSend(llm_choice, outcome, detailed_analysis, sb[1], sb[2],
                               <<>>, prompt)
    /\ UNCHANGED <<prompt, analysis, block, redaction, second_redaction, api_response>>
    /\ UNCHANGED <<logger_vars, admin_vars>>

\* ------------------------------------------------------------------------
\* POST /prompt (app/main.py)
\* ------------------------------------------------------------------------
\* classify_risk (line 32) runs outside any try: when it raises, the handler
\* ends there and the framework answers 500 with no body of the handler
check_prompt ==
    /\ pc = "start"
    /\ \/ /\ pc' = "api_error"
          /\ UNCHANGED <<model_calls, api_response>>
       \/ \E risk \in {classify_risk(prompt)} :
          \E llm \in LlmChoices, outcome \in LlmOutcomes :
          /\ pc' = "api_done"
          /\ model_calls' = Append(model_calls,
                                   [fn |-> IF llm = "groq" THEN "call_groq" ELSE "call_gemini",
                                    prompt |-> prompt,
                                    outcome |-> outcome])
          /\ api_response' = <<[risk |-> risk,
                                llm_response |-> IF llm = "groq" THEN call_groq(outcome)
                                                 ELSE call_gemini(outcome)]>>
    /\ UNCHANGED <<prompt, analysis, block, redaction, second_redaction,
                   session_state, logs>>
    /\ UNCHANGED <<logger_vars, admin_vars>>

\* ------------------------------------------------------------------------
\* generate_sample_data.py: the script that fills the audit log with samples
\* ------------------------------------------------------------------------
\* lines 24-75: entries of sample_prompts (the first low, the third medium
\* and the second high one), each with the risk level the script expects
sample_prompts == <<
    [prompt |-> <<"H","o","w"," ","c","a","n"," ","I"," ","i","m","p","r","o","v","e"," ","m","y"," ","P","y","t","h","o","n"," ","c","o","d","i","n","g"," ","s","k","i","l","l","s","?">>, model |-> "groq", risk_level |-> "low"],
    [prompt |-> <<"M","y"," ","e","m","a","i","l"," ","i","s"," ","j","o","h","n",".","d","o","e","@","c","o","m","p","a","n","y",".","c","o","m",","," ","h","o","w"," ","c","a","n"," ","I"," ","p","r","o","t","e","c","t"," ","i","t","?">>, model |-> "gemini", risk_level |-> "medium"],
    [prompt |-> <<"M","y"," ","S","S","N"," ","i","s"," ","1","2","3","-","4","5","-","6","7","8","9",","," ","h","o","w"," ","c","a","n"," ","I"," ","p","r","o","t","e","c","t"," ","m","y"," ","i","d","e","n","t","i","t","y","?">>, model |-> "gemini", risk_level |-> "high"]
>>

\* lines 130-141: entries of additional_prompts (the seventh and the tenth)
additional_prompts == <<
    <<"H","o","w"," ","d","o"," ","I"," ","i","m","p","l","e","m","e","n","t"," ","r","a","t","e"," ","l","i","m","i","t","i","n","g","?">>,
    <<"H","o","w"," ","c","a","n"," ","I"," ","s","e","c","u","r","e"," ","m","y"," ","w","e","b"," ","a","p","p","l","i","c","a","t","i","o","n","?">>
>>

\* line 154
risk_levels == {"low", "medium", "high"}

\* lines 97 and 158: block_reason
HighRiskContentDetected == <<"H","i","g","h","-","r","i","s","k"," ","c","o","n","t","e","n","t"," ","d","e","t","e","c","t","e","d">>

\* line 113: f"This is a sample response for: {prompt_to_send[:50]}..."
SampleResponse(prompt_to_send) ==
    <<"T","h","i","s"," ","i","s"," ","a"," ","s","a","m","p","l","e"," ","r","e","s","p","o","n","s","e"," ","f","o","r",":"," ">> \o SubSeq(prompt_to_send, 1, IF Len(prompt_to_send) < 50
                                                    THEN Len(prompt_to_send) ELSE 50)
    \o <<".", ".", ".">>

\* line 164: the blocked message of the second loop
ShortBlockedMessage(block_reason) ==
    <<"U+1F6AB"," ","*","*","P","R","O","M","P","T"," ","B","L","O","C","K","E","D","*","*","\n","\n","*","*","R","e","a","s","o","n",":","*","*"," ">>
    \o block_reason

\* line 172
SampleResponseForPromptAnalysis == <<"S","a","m","p","l","e"," ","r","e","s","p","o","n","s","e"," ","f","o","r"," ","p","r","o","m","p","t"," ","a","n","a","l","y","s","i","s",".",".",".">>

\* lines 92-125 and 150-183: the body both loops share; should_block comes
\* from the expected risk level, the entry's risk_level from the analysis
GenerateEntry(p, model, expected_risk, detailed_analysis, redaction_result, first_loop) ==
    LET should_block == (expected_risk = "high")
        block_reason == IF should_block THEN HighRiskContentDetected ELSE <<>>
        prompt_to_send == IF redaction_result # <<>>
                          THEN redaction_result[1].redacted_prompt ELSE p
        llm_response ==
            IF should_block
            THEN IF first_loop THEN BlockedMessage(block_reason)
                 ELSE ShortBlockedMessage(block_reason)
            ELSE IF first_loop THEN SampleResponse(prompt_to_send)
                 ELSE SampleResponseForPromptAnalysis
    IN  logs' = Append(logs, log_entry(p, detailed_analysis, should_block, block_reason,
                                       model, llm_response, redaction_result))

\* lines 99-110 and 160-170: the redactor runs when the expected risk is medium
SampleRedaction(p, expected_risk) ==
    IF expected_risk = "medium" THEN <<redact_prompt(p)>> ELSE <<>>

\* lines 80-125: one iteration of the loop over sample_prompts; the script
\* takes no prompt from a user
generate_sample ==
    /\ pc = "start"
    /\ prompt = <<>>
    /\ pc' = "sample_done"
    /\ \E i \in 1..Len(sample_prompts) :
       \E detailed_analysis \in {get_detailed_analysis(sample_prompts[i].prompt)},
          redaction_result \in {SampleRedaction(sample_prompts[i].prompt,
                                                sample_prompts[i].risk_level)} :
          GenerateEntry(sample_prompts[i].prompt, sample_prompts[i].model,
                        sample_prompts[i].risk_level, detailed_analysis,
                        redaction_result, TRUE)
    /\ UNCHANGED <<prompt, analysis, block, redaction, second_redaction, model_calls,
                   session_state, api_response>>
    /\ UNCHANGED <<logger_vars, admin_vars>>

\* lines 143-183: one iteration of the loop over additional_prompts, with
\* random.choice of the model and of the expected risk level
generate_additional ==
    /\ pc = "start"
    /\ prompt = <<>>
    /\ pc' = "sample_done"
    /\ \E i \in 1..Len(additional_prompts), model \in LlmChoices, expected_risk \in risk_levels :
       \E detailed_analysis \in {get_detailed_analysis(additional_prompts[i])},
          redaction_result \in {SampleRedaction(additional_prompts[i], expected_risk)} :
          GenerateEntry(additional_prompts[i], model, expected_risk, detailed_analysis,
                        redaction_result, FALSE)
    /\ UNCHANGED <<prompt, analysis, block, redaction, second_redaction, model_calls,
                   session_state, api_response>>
    /\ UNCHANGED <<logger_vars, admin_vars>>

Next ==
    \/ Analyze
    \/ Redact
    \/ RedactAgain
    \/ SubmitPromptForm
    \/ check_prompt
    \/ generate_sample
    \/ generate_additional

Spec == Init /\ [][Next]_vars

\* ------------------------------------------------------------------------
\* PromptLogger (app/logging/logger.py)
\* ------------------------------------------------------------------------
\* calls of log_prompt_analysis in a run
MaxAppends == 2

\* the texts and findings of the requests that get logged: an SSN (blocked),
\* an email (redacted and forwarded) and a text without findings
SsnFound == <<[name |-> <<"s","s","n">>, matches |-> <<<<"1","2","3","-","4","5","-","6","7","8","9">>>>]>>
EmailFound == <<[name |-> <<"e","m","a","i","l">>, matches |-> <<<<"a","@","b",".","c","o">>>>]>>
NoKeywords == [high |-> <<>>, medium |-> <<>>]

\* the arguments main_app.py lines 352-361 pass to log_prompt_analysis for a
\* prompt with these findings
LogArguments(p, model_used, redaction_result, reply, sb, detailed_analysis) ==
    [prompt |-> p,
     detailed_analysis |-> detailed_analysis,
     should_block |-> sb[1],
     block_reason |-> sb[2],
     model_used |-> model_used,
     llm_response |-> IF sb[1] THEN BlockedMessage(sb[2]) ELSE reply,
     redaction_result |-> redaction_result]

LogArgumentsOf(p, model_used, redaction_result, reply, detailed_analysis) ==
    LogArguments(p, model_used, redaction_result, reply,
                 block_decision(detailed_analysis), detailed_analysis)

Requests ==
    {LogArgumentsOf(<<"1","2","3","-","4","5","-","6","7","8","9">>, "groq", <<>>, <<>>,
                    analysis_of(SsnFound, NoKeywords)),
     LogArgumentsOf(<<"a","@","b",".","c","o">>, "gemini",
                    <<redaction_result_of(<<"a","@","b",".","c","o">>, EmailFound, PiiMarker(<<"e","m","a","i","l">>), <<>>, 1)>>,
                    ReplyText, analysis_of(EmailFound, NoKeywords)),
     LogArgumentsOf(<<"i","s">>, "groq", <<>>, ReplyText,
                    analysis_of(<<>>, NoKeywords))}

\* lines 77-100: the entry of a call, with its timestamp
stamped_entry(timestamp, r) ==
    [timestamp |-> timestamp]
    @@ log_entry(r.prompt, r.detailed_analysis, r.should_block, r.block_reason,
                 r.model_used, r.llm_response, r.redaction_result)

\* lines 113-130: the CSV row of an entry
csv_row(e) ==
    <<e.timestamp, e.prompt, e.risk_level, e.should_block, e.block_reason,
      e.model_used, e.was_redacted, e.redacted_prompt,
      Join(<<";", " ">>, e.pii_detected), Join(<<";", " ">>, e.high_risk_keywords),
      Join(<<";", " ">>, e.medium_risk_keywords), e.llm_response_length>>

\* the file after open(json_file, 'w'): truncated, and until json.dump has
\* written the whole list not parseable
TruncatedFile == [exists |-> TRUE, valid |-> FALSE, logs |-> <<>>]

\* the file after json.dump(logs, f) and close
DumpedFile(entries) == [exists |-> TRUE, valid |-> TRUE, logs |-> entries]

\* what a reader can load from json_file
StoredEntries == IF json_file.exists /\ json_file.valid THEN json_file.logs ELSE <<>>

\* one caller's call moves to pc_ with these locals
CallAt(c, pc_, log_entry_, logs_) ==
    [calls EXCEPT ![c] = [pc |-> pc_, log_entry |-> log_entry_, logs |-> logs_]]

\* the call of c is over
CallOver(c) == CallAt(c, "idle", <<>>, <<>>)

\* what log_prompt_analysis returned (line 108) and whether the JSON store
\* failed under it: the list complete in the store before and the entries
\* readable after the call are kept with it
Return(c, failed) ==
    Append(returned, [log_entry |-> calls[c].log_entry,
                      failed |-> failed,
                      result |-> calls[c].log_entry,
                      before |-> last_complete,
                      after |-> StoredEntries'])

\* ---- log_prompt_analysis, step by step ----
\* lines 77-103: take the timestamp, build the entry, append its row to the
\* CSV file
log_prompt_analysis(c) ==
    /\ calls[c].pc = "idle"
    /\ clock < MaxAppends
    /\ clock' = clock + 1
    /\ \E r \in Requests :
       \E e \in {stamped_entry(clock + 1, r)} :
          /\ csv_file' = Append(csv_file, csv_row(e))
          /\ calls' = CallAt(c, "read", e, <<>>)
    /\ UNCHANGED <<json_file, returned, last_complete>>
    /\ read_result' = <<>>
    /\ UNCHANGED <<request_vars, admin_vars>>

\* _log_to_json lines 142-151: read the existing logs (none when the file is
\* missing, none when it does not parse) and append the entry to them
log_to_json_read(c) ==
    /\ calls[c].pc = "read"
    /\ calls' = CallAt(c, "write", calls[c].log_entry,
                       Append(StoredEntries, calls[c].log_entry))
    /\ UNCHANGED <<json_file, csv_file, clock, returned, last_complete>>
    /\ read_result' = <<>>
    /\ UNCHANGED <<request_vars, admin_vars>>

\* lines 144, 156-157, 108: opening the existing file for reading raises
\* OSError; the handler prints it and the call returns the entry
log_to_json_read_fails(c) ==
    /\ calls[c].pc = "read"
    /\ json_file.exists
    /\ UNCHANGED json_file
    /\ returned' = Return(c, TRUE)
    /\ calls' = CallOver(c)
    /\ UNCHANGED <<csv_file, clock, last_complete>>
    /\ read_result' = <<>>
    /\ UNCHANGED <<request_vars, admin_vars>>

\* line 154: open(json_file, 'w') truncates the file
log_to_json_open(c) ==
    /\ calls[c].pc = "write"
    /\ json_file' = TruncatedFile
    /\ calls' = CallAt(c, "dump", calls[c].log_entry, calls[c].logs)
    /\ UNCHANGED <<csv_file, clock, returned, last_complete>>
    /\ read_result' = <<>>
    /\ UNCHANGED <<request_vars, admin_vars>>

\* lines 155, 108: json.dump writes the caller's list, the file is closed and
\* the call returns the entry
log_to_json_dump(c) ==
    /\ calls[c].pc = "dump"
    /\ json_file' = DumpedFile(calls[c].logs)
    /\ last_complete' = calls[c].logs
    /\ returned' = Return(c, FALSE)
    /\ calls' = CallOver(c)
    /\ UNCHANGED <<csv_file, clock>>
    /\ read_result' = <<>>
    /\ UNCHANGED <<request_vars, admin_vars>>

\* lines 155-157, 108: json.dump or the close raises (disk full, I/O error)
\* with the list partly written; the handler prints it and the call returns
\* the entry
log_to_json_dump_fails(c) ==
    /\ calls[c].pc = "dump"
    /\ json_file' = TruncatedFile
    /\ returned' = Return(c, TRUE)
    /\ calls' = CallOver(c)
    /\ UNCHANGED <<csv_file, clock, last_complete>>
    /\ read_result' = <<>>
    /\ UNCHANGED <<request_vars, admin_vars>>

\* the process dies with calls in progress and is started again: the calls
\* are gone, the files are as they were left
ProcessRestart ==
    /\ \E c \in Callers : calls[c].pc # "idle"
    /\ calls' = [c \in Callers |-> [pc |-> "idle", log_entry |-> <<>>, logs |-> <<>>]]
    /\ UNCHANGED <<json_file, csv_file, clock, returned, last_complete>>
    /\ read_result' = <<>>
    /\ UNCHANGED <<request_vars, admin_vars>>

\* ---- the read operations ----
\* Python's s[start:] for an integer start
PySliceFrom(s, start) ==
    LET from == IF start < 0
                THEN (IF Len(s) + start < 0 THEN 0 ELSE Len(s) + start)
                ELSE (IF start > Len(s) THEN Len(s) ELSE start)
    IN  SubSeq(s, from + 1, Len(s))

\* line 173: logs[-limit:] if len(logs) > limit else logs
recent_of(entries, limit) ==
    IF Len(entries) > limit THEN PySliceFrom(entries, 0 - limit) ELSE entries

\* the matching entries, newest first
by_risk_level_newest_first(entries, risk_level) ==
    LET kept == SelectSeq(entries, LAMBDA log : log.risk_level = risk_level)
    IN  [k \in 1..Len(kept) |-> kept[Len(kept) + 1 - k]]

\* line 193
by_risk_level_of(entries, risk_level) ==
    SelectSeq(entries, LAMBDA log : log.risk_level = risk_level)

\* line 213
by_model_of(entries, model) ==
    SelectSeq(entries, LAMBDA log : log.model_used = model)

\* lines 231-270: the statistics of a loaded list
statistics_of(entries) ==
    [total_prompts |-> Len(entries),
     risk_levels |->
         [r \in {entries[k].risk_level : k \in 1..Len(entries)} |->
             Cardinality({k \in 1..Len(entries) : entries[k].risk_level = r})],
     models_used |->
         [m \in {entries[k].model_used : k \in 1..Len(entries)} |->
             Cardinality({k \in 1..Len(entries) : entries[k].model_used = m})],
     blocked_prompts |-> Len(SelectSeq(entries, LAMBDA log : log.should_block)),
     redacted_prompts |-> Len(SelectSeq(entries, LAMBDA log : log.was_redacted))]

\* lines 169-177; a file that does not parse raises in json.load and the
\* handler returns []
get_recent_logs(limit) ==
    IF json_file.exists
    THEN IF json_file.valid THEN recent_of(json_file.logs, limit) ELSE <<>>
    ELSE <<>>

\* lines 189-197
get_logs_by_risk_level(risk_level) ==
    IF json_file.exists
    THEN IF json_file.valid THEN by_risk_level_of(json_file.logs, risk_level) ELSE <<>>
    ELSE <<>>

\* lines 209-217
get_logs_by_model(model) ==
    IF json_file.exists
    THEN IF json_file.valid THEN by_model_of(json_file.logs, model) ELSE <<>>
    ELSE <<>>

\* lines 226-286
get_statistics ==
    IF json_file.exists
    THEN IF json_file.valid THEN statistics_of(json_file.logs) ELSE statistics_of(<<>>)
    ELSE statistics_of(<<>>)

\* the limits asked of get_recent_logs: from none to all that can be stored
Limits == 0..MaxAppends
RiskLevels == {"low", "medium", "high"}

\* the lists an append in progress takes the store from and to: the list last
\* dumped completely, and the list of every caller between open and dump
Snapshots ==
    {last_complete} \cup {calls[c].logs : c \in {d \in Callers : calls[d].pc = "dump"}}

\* a read operation called with arg gave result; with it, what the store held,
\* the file before and after the call, and the appends in progress
ReadResult(op, arg, result) ==
    <<[op |-> op, arg |-> arg, result |-> result,
       store |-> StoredEntries, snapshots |-> Snapshots,
       file_before |-> json_file, file_after |-> json_file']>>

\* the dashboards' calls of the read operations (main_app.py lines 184, 220;
\* dashboard.py lines 20, 55, 139, 188)
CallGetRecentLogs ==
    /\ UNCHANGED <<json_file, csv_file, clock, calls, returned, last_complete>>
    /\ \E limit \in Limits :
          read_result' = ReadResult("get_recent_logs", <<limit>>, get_recent_logs(limit))
    /\ UNCHANGED <<request_vars, admin_vars>>

CallGetLogsByRiskLevel ==
    /\ UNCHANGED <<json_file, csv_file, clock, calls, returned, last_complete>>
    /\ \E risk_level \in RiskLevels :
          read_result' = ReadResult("get_logs_by_risk_level", <<risk_level>>,
                                    get_logs_by_risk_level(risk_level))
    /\ UNCHANGED <<request_vars, admin_vars>>

CallGetLogsByModel ==
    /\ UNCHANGED <<json_file, csv_file, clock, calls, returned, last_complete>>
    /\ \E model \in LlmChoices :
          read_result' = ReadResult("get_logs_by_model", <<model>>, get_logs_by_model(model))
    /\ UNCHANGED <<request_vars, admin_vars>>

CallGetStatistics ==
    /\ UNCHANGED <<json_file, csv_file, clock, calls, returned, last_complete>>
    /\ read_result' = ReadResult("get_statistics", <<>>, get_statistics)
    /\ UNCHANGED <<request_vars, admin_vars>>

\* ---- the store under its callers ----
LoggerSpecInit ==
    /\ prompt = <<>>
    /\ pc = "start"
    /\ analysis = <<>>
    /\ block = <<>>
    /\ redaction = <<>>
    /\ second_redaction = <<>>
    /\ model_calls = <<>>
    /\ session_state = [result |-> <<>>, error |-> <<>>]
    /\ api_response = <<>>
    /\ logs = <<>>
    /\ LoggerInit
    /\ AdminInit

LoggerNext ==
    \/ \E c \in Callers : log_prompt_analysis(c)
    \/ \E c \in Callers : log_to_json_read(c)
    \/ \E c \in Callers : log_to_json_read_fails(c)
    \/ \E c \in Callers : log_to_json_open(c)
    \/ \E c \in Callers : log_to_json_dump(c)
    \/ \E c \in Callers : log_to_json_dump_fails(c)
    \/ ProcessRestart
    \/ CallGetRecentLogs
    \/ CallGetLogsByRiskLevel
    \/ CallGetLogsByModel
    \/ CallGetStatistics

LoggerSpec == LoggerSpecInit /\ [][LoggerNext]_vars

\* what a call hands back, next to the call itself
AdminReturn(op, username, password, success, message) ==
    admin_result' = <<[op |-> op, username |-> username, password |-> password,
                       success |-> success, message |-> message]>>

\* lines 58-61: config with the record of username replaced by user
SaveUser(config, username, user) ==
    admin_config' = [config EXCEPT !.admin_users[username] = user]

\* lines 97-100: the record after an expired lock is lifted
Unlocked(user) ==
    IF user.locked_until # <<>>
    THEN [user EXCEPT !.locked_until = <<>>, !.login_attempts = 0]
    ELSE user

\* authenticate counting failures but locking only above max_login_attempts
FailedLogin_locks_late(config, user) ==
    LET attempts == user.login_attempts + 1
    IN  [user EXCEPT
           !.login_attempts = attempts,
           !.locked_until =
               IF attempts > config.system_config.max_login_attempts
               THEN <<now + config.system_config.lockout_duration_minutes>>
               ELSE user.locked_until]

\* lines 123-128: the record after a wrong password
FailedLogin(config, user) ==
    LET attempts == user.login_attempts + 1
    IN  [user EXCEPT
           !.login_attempts = attempts,
           !.locked_until =
               IF attempts >= config.system_config.max_login_attempts
               THEN <<now + config.system_config.lockout_duration_minutes>>
               ELSE user.locked_until]

\* lines 105-107: the record after the right password
SuccessfulLogin(user) ==
    [user EXCEPT !.last_login = <<now>>, !.login_attempts = 0, !.locked_until = <<>>]

\* lines 63-143
authenticate(username, password) ==
    LET config == admin_config
        admin_users == config.admin_users
    IN  IF username \notin DOMAIN admin_users
        THEN /\ AdminReturn("authenticate", username, password, FALSE,
                            "Invalid username or password")
             /\ UNCHANGED admin_config
        ELSE IF /\ admin_users[username].locked_until # <<>>
                /\ now < admin_users[username].locked_until[1]
        THEN /\ AdminReturn("authenticate", username, password, FALSE,
                            <<"Account locked. Try again in ",
                              admin_users[username].locked_until[1] - now, " minutes">>)
             /\ UNCHANGED admin_config
        ELSE IF Unlocked(admin_users[username]).password_hash = hash_password(password)
        THEN /\ SaveUser(config, username, SuccessfulLogin(Unlocked(admin_users[username])))
             /\ AdminReturn("authenticate", username, password, TRUE, "Login successful")
        ELSE /\ SaveUser(config, username, FailedLogin(config, Unlocked(admin_users[username])))
             /\ AdminReturn("authenticate", username, password, FALSE,
                            "Invalid username or password")

\* the roles offered when a user is created
Roles == {"admin"}

\* lines 145-189
create_admin_user(username, password, role) ==
    LET config == admin_config
        admin_users == config.admin_users
    IN  IF username \in DOMAIN admin_users
        THEN /\ AdminReturn("create_admin_user", username, password, FALSE,
                            "Username already exists")
             /\ UNCHANGED admin_config
        ELSE /\ admin_config' =
                   [config EXCEPT !.admin_users =
                       [u \in DOMAIN admin_users \cup {username} |->
                           IF u = username THEN new_user(password, role, now)
                           ELSE admin_users[u]]]
             /\ AdminReturn("create_admin_user", username, password, TRUE,
                            "Admin user created successfully")

\* delete_admin_user without the check of lines 211-215
delete_any_user(username) ==
    LET config == admin_config
        admin_users == config.admin_users
    IN  IF username \notin DOMAIN admin_users
        THEN /\ AdminReturn("delete_admin_user", username, <<>>, FALSE, "User not found")
             /\ UNCHANGED admin_config
        ELSE /\ admin_config' =
                   [config EXCEPT !.admin_users =
                       [u \in DOMAIN admin_users \ {username} |-> admin_users[u]]]
             /\ AdminReturn("delete_admin_user", username, <<>>, TRUE,
                            "Admin user deleted successfully")

\* lines 191-230
delete_admin_user(username) ==
    LET config == admin_config
        admin_users == config.admin_users
    IN  IF username \notin DOMAIN admin_users
        THEN /\ AdminReturn("delete_admin_user", username, <<>>, FALSE, "User not found")
             /\ UNCHANGED admin_config
        ELSE IF username = "admin"
        THEN /\ AdminReturn("delete_admin_user", username, <<>>, FALSE,
                            "Cannot delete the default admin user")
             /\ UNCHANGED admin_config
        ELSE /\ admin_config' =
                   [config EXCEPT !.admin_users =
                       [u \in DOMAIN admin_users \ {username} |-> admin_users[u]]]
             /\ AdminReturn("delete_admin_user", username, <<>>, TRUE,
                            "Admin user deleted successfully")

\* lines 259-304
change_password(username, old_password, new_password) ==
    LET config == admin_config
        admin_users == config.admin_users
    IN  IF username \notin DOMAIN admin_users
        THEN /\ AdminReturn("change_password", username, old_password, FALSE,
                            "User not found")
             /\ UNCHANGED admin_config
        ELSE IF admin_users[username].password_hash # hash_password(old_password)
        THEN /\ AdminReturn("change_password", username, old_password, FALSE,
                            "Current password is incorrect")
             /\ UNCHANGED admin_config
        ELSE /\ SaveUser(config, username,
                         [admin_users[username] EXCEPT
                             !.password_hash = hash_password(new_password)])
             /\ AdminReturn("change_password", username, old_password, TRUE,
                            "Password changed successfully")

\* the login form (main_app.py line 97)
Login ==
    /\ \E username \in Usernames, password \in Passwords : authenticate(username, password)
    /\ UNCHANGED <<now, request_vars, logger_vars>>

\* the user-management forms of the dashboard (dashboard.py lines 107, 123)
CreateUser ==
    /\ \E username \in Usernames, password \in Passwords, role \in Roles :
          create_admin_user(username, password, role)
    /\ UNCHANGED <<now, request_vars, logger_vars>>

DeleteUser ==
    /\ \E username \in Usernames : delete_admin_user(username)
    /\ UNCHANGED <<now, request_vars, logger_vars>>

ChangePassword ==
    /\ \E username \in Usernames, old_password \in Passwords, new_password \in Passwords :
          change_password(username, old_password, new_password)
    /\ UNCHANGED <<now, request_vars, logger_vars>>

\* time passes
Tick ==
    /\ now + TickMinutes <= MaxMinutes
    /\ now' = now + TickMinutes
    /\ UNCHANGED <<admin_config, admin_result, request_vars, logger_vars>>

AdminSpecInit ==
    /\ prompt = <<>>
    /\ pc = "start"
    /\ analysis = <<>>
    /\ block = <<>>
    /\ redaction = <<>>
    /\ second_redaction = <<>>
    /\ model_calls = <<>>
    /\ session_state = [result |-> <<>>, error |-> <<>>]
    /\ api_response = <<>>
    /\ logs = <<>>
    /\ LoggerInit
    /\ AdminInit

AdminNext ==
    \/ Login
    \/ CreateUser
    \/ DeleteUser
    \/ ChangePassword
    \/ Tick

AdminSpec == AdminSpecInit /\ [][AdminNext]_vars

\* ------------------------------------------------------------------------
\* Properties
\* ------------------------------------------------------------------------
\* the form handler has stored a result for a non-empty prompt
FormDone == pc = "form_done" /\ session_state.result # <<>>
\* POST /prompt has answered
ApiDone == pc = "api_done" /\ api_response # <<>>

\* C1: through both entry points (the prompt form and POST /prompt), a
\* prompt classified high risk is never passed to call_groq or call_gemini,
\* and the response recorded for the request is the block message with the
\* block reason.
C1_HighRiskIsNeverSent ==
    /\ (FormDone /\ session_state.result[1].detailed_analysis.risk_level = "high")
         => /\ model_calls = <<>>
            /\ session_state.result[1].llm_response
                 = BlockedMessage(session_state.result[1].block_reason)
            /\ logs[Len(logs)].llm_response = session_state.result[1].llm_response
    /\ (ApiDone /\ api_response[1].risk = "high")
         => /\ model_calls = <<>>
            /\ api_response[1].llm_response
                 = BlockedMessage(should_block_prompt(prompt)[2])

\* C2: through both entry points, for a prompt classified medium risk the
\* text passed to the model is redact_prompt(prompt)['redacted_prompt'] and is
\* never the original prompt.
C2_MediumRiskSendsRedactedText ==
    /\ (FormDone /\ session_state.result[1].detailed_analysis.risk_level = "medium")
         => /\ Len(model_calls) = 1
            /\ model_calls[1].prompt # prompt
            /\ model_calls[1].prompt = redact_prompt(prompt).redacted_prompt
    /\ (ApiDone /\ api_response[1].risk = "medium")
         => /\ Len(model_calls) = 1
            /\ model_calls[1].prompt # prompt
            /\ model_calls[1].prompt = redact_prompt(prompt).redacted_prompt

\* C3: analyze_prompt's should_block is true exactly when its risk_level is
\* 'high', and should_block_prompt's block is true exactly when
\* analyze_prompt's risk_level is 'high'.
C3_BlockIffHigh ==
    analysis # <<>> =>
        /\ analysis[1].should_block = (analysis[1].risk_level = "high")
        /\ block[1][1] = (analysis[1].risk_level = "high")

\* a high-risk prompt analysed and blocked
C3_Witness ==
    /\ analysis # <<>>
    /\ analysis[1].risk_level = "high"
    /\ analysis[1].should_block
    /\ block[1][1]

C5_SsnOrCardIsBlocked ==
    analysis # <<>> =>
        \A d \in {<<"s","s","n">>, <<"c","r","e","d","i","t","_","c","a","r","d">>} :
            HasKey(analysis[1].pii_detected, d) =>
                /\ analysis[1].risk_level = "high"
                /\ block[1][1]
                /\ Contains(block[1][2], d)

\* an SSN next to other PII and a high-risk keyword, blocked with a reason
\* naming ssn
C5_Witness ==
    /\ analysis # <<>>
    /\ HasKey(analysis[1].pii_detected, <<"s","s","n">>)
    /\ Len(analysis[1].pii_detected) > 1
    /\ analysis[1].keywords_found.high # <<>>
    /\ analysis[1].risk_level = "high"
    /\ block[1][1]
    /\ Contains(block[1][2], <<"s","s","n">>)

\* C6: for a prompt classified low risk the redactor is not run (the
\* request has no redaction result) and the text passed to the model is exactly
\* the original prompt.
C6_LowRiskSendsOriginal ==
    /\ (FormDone /\ session_state.result[1].detailed_analysis.risk_level = "low")
         => /\ session_state.result[1].redaction_result = <<>>
            /\ logs[Len(logs)].redaction_details = <<>>
            /\ Len(model_calls) = 1
            /\ model_calls[1].prompt = prompt
    /\ (ApiDone /\ api_response[1].risk = "low")
         => /\ Len(model_calls) = 1
            /\ model_calls[1].prompt = prompt

\* a low-risk prompt submitted through the form and sent as typed
C6_Witness ==
    /\ FormDone
    /\ prompt # <<>>
    /\ session_state.result[1].detailed_analysis.risk_level = "low"
    /\ session_state.result[1].redaction_result = <<>>
    /\ Len(model_calls) = 1
    /\ model_calls[1].fn = "call_groq"
    /\ model_calls[1].prompt = prompt

\* C7: redaction is idempotent: redacting the redacted text gives the
\* redacted text again.
C7_RedactionIsIdempotent ==
    second_redaction # <<>> =>
        second_redaction[1].redacted_prompt = redaction[1].redacted_prompt

\* C8: every detector name in analyze_prompt(p)['pii_detected'] has its
\* intact marker '[REDACTED_<NAME>]' in the final redacted text of p.
C8_EveryDetectorHasItsMarker ==
    redaction # <<>> =>
        \A k \in 1..Len(analysis[1].pii_detected) :
            Contains(redaction[1].redacted_prompt,
                     PiiMarker(analysis[1].pii_detected[k].name))

\* C9: total_redactions = 0, was_redacted = false and
\* redacted_prompt = p are equivalent.
C9_CountInvariant ==
    redaction # <<>> =>
        /\ (redaction[1].total_redactions = 0) <=> ~redaction[1].was_redacted
        /\ ~redaction[1].was_redacted <=> (redaction[1].redacted_prompt = prompt)

\* ' ' + text + ' ' contains ' ' + phrase + ' ': phrase occurs as whole words
HasWords(text, phrase) ==
    Contains(<<" ">> \o text \o <<" ">>, <<" ">> \o phrase \o <<" ">>)

\* the separators of the secret-assignment pattern, <<>> for none
Separators == {<<>>, <<"=">>, <<":">>, <<"i", "s">>}

\* the tokens a keyword is followed by in the prompts: the words that are
\* neither a separator nor themselves a keyword
Tokens ==
    {w \in VocabSecret \cup VocabPii :
        /\ w \notin Separators
        /\ \A k \in 1..Len(redact_keywords_list) : ~Contains(Lower(w), redact_keywords_list[k])}

\* C10: when the prompt has a high-risk keyword k followed by an optional
\* separator ('=', ':' or 'is') and a non-whitespace token t, the redacted text
\* contains '[REDACTED_KEYWORD]' and '[REDACTED_SECRET]', keeps the separator
\* and no longer contains t.
C10_SecretAssignmentIsRedacted ==
    redaction # <<>> =>
        \A k \in 1..Len(redact_keywords_list), sep \in Separators, t \in Tokens :
            HasWords(prompt, redact_keywords_list[k]
                             \o (IF sep = <<>> THEN <<>> ELSE <<" ">> \o sep)
                             \o <<" ">> \o t)
            => /\ Contains(redaction[1].redacted_prompt, KeywordMarker)
               /\ Contains(redaction[1].redacted_prompt, SecretMarker)
               /\ (sep = <<>> \/ HasWords(redaction[1].redacted_prompt, sep))
               /\ ~Contains(redaction[1].redacted_prompt, t)

\* ------------------------------------------------------------------------
\* Properties of the audit store
\* ------------------------------------------------------------------------
\* s is the beginning of t
IsPrefix(s, t) == Len(s) <= Len(t) /\ SubSeq(t, 1, Len(s)) = s

\* the elements of a sequence
Elements(s) == {s[k] : k \in 1..Len(s)}

\* no call of log_prompt_analysis is in progress
NoCallInProgress == \A c \in Callers : calls[c].pc = "idle"

\* no caller is between open(json_file, 'w') and the end of json.dump
NoWriteInProgress == \A c \in Callers : calls[c].pc # "dump"

\* C11: after N concurrent log_prompt_analysis calls (all returned, none
\* met a storage failure) the store holds exactly N distinct entries, those of
\* the calls, and get_recent_logs(N) returns all of them.
C11_ConcurrentAppendsAllStored ==
    (/\ NoCallInProgress
     /\ Len(returned) = clock
     /\ \A k \in 1..Len(returned) : ~returned[k].failed)
    => /\ Len(StoredEntries) = clock
       /\ Cardinality(Elements(StoredEntries)) = clock
       /\ Elements(StoredEntries) = {returned[k].log_entry : k \in 1..Len(returned)}
       /\ Elements(get_recent_logs(clock)) = {returned[k].log_entry : k \in 1..Len(returned)}

\* C12: when writing an entry to the JSON store fails, log_prompt_analysis
\* reports the failure to its caller instead of returning the entry as if it
\* had been saved.
C12_FailureIsReported ==
    \A k \in 1..Len(returned) :
        returned[k].failed => returned[k].result # returned[k].log_entry

\* C13: the log is append-only: the stored sequence after a
\* log_prompt_analysis call is the stored sequence before it, every entry
\* unchanged and in place, followed by the new entry.
C13_AppendOnly ==
    \A k \in 1..Len(returned) :
        returned[k].after = Append(returned[k].before, returned[k].log_entry)

\* C14: durability: the write is all-or-nothing, so whenever no write is
\* in progress (also after a crash or failure of a later append between opening
\* the store for writing and finishing the dump) every entry stored by an
\* earlier append is still readable from the store.
C14_AllOrNothingWrite ==
    NoWriteInProgress
    => IsPrefix(last_complete, StoredEntries)

\* C15: every request that reaches a terminal outcome, through the prompt
\* form or POST /prompt, produces exactly one audit-log entry carrying its
\* prompt, risk level, decision and model response.
C15_EveryRequestIsLogged ==
    /\ FormDone
         => /\ Len(logs) = 1
            /\ logs[1].prompt = prompt
            /\ logs[1].risk_level = session_state.result[1].detailed_analysis.risk_level
            /\ logs[1].should_block = session_state.result[1].should_block
            /\ logs[1].llm_response = session_state.result[1].llm_response
    /\ ApiDone
         => /\ Len(logs) = 1
            /\ logs[1].prompt = prompt
            /\ logs[1].risk_level = api_response[1].risk
            /\ logs[1].llm_response = api_response[1].llm_response

\* the entries of the appends that returned with their write done
AppendedEntries ==
    SelectSeq([k \in 1..Len(returned) |-> returned[k]], LAMBDA call : ~call.failed)

\* C16: in every reachable state get_statistics()['total_prompts'] is the
\* number of entries get_recent_logs returns for an unbounded limit, and
\* ['blocked_prompts'] is the number of appended entries with should_block true.
C16_StatisticsAgreeWithLog ==
    /\ get_statistics.total_prompts = Len(get_recent_logs(MaxAppends))
    /\ get_statistics.blocked_prompts
         = Len(SelectSeq(AppendedEntries, LAMBDA call : call.log_entry.should_block))

\* the smaller of two numbers
Min(a, b) == IF a < b THEN a ELSE b

\* C17: get_recent_logs(limit) returns exactly the newest min(limit, n) of
\* the n stored entries, oldest of them first; get_recent_logs(0) returns none.
C17_RecentReturnsNewest ==
    (read_result # <<>> /\ read_result[1].op = "get_recent_logs")
    => LET store == read_result[1].store
           n == Len(store)
           m == Min(read_result[1].arg[1], n)
       IN  read_result[1].result = [k \in 1..m |-> store[n - m + k]]

\* result is the entries of store for which the field has the value: all of
\* them, no others, in the order of the store
IsMatchingSubsequence(result, store, field, value) ==
    LET matching == {k \in 1..Len(store) : store[k][field] = value}
    IN  /\ Len(result) = Cardinality(matching)
        /\ \A i \in 1..Len(result) :
              \E k \in matching :
                  /\ Cardinality({j \in matching : j <= k}) = i
                  /\ result[i] = store[k]

\* C18: get_logs_by_risk_level(level) and get_logs_by_model(name) return
\* exactly the stored entries whose risk_level (model_used) is the argument,
\* in insertion order, and leave the store unchanged.
C18_FiltersReturnMatchingEntries ==
    /\ (read_result # <<>> /\ read_result[1].op = "get_logs_by_risk_level")
         => /\ IsMatchingSubsequence(read_result[1].result, read_result[1].store,
                                     "risk_level", read_result[1].arg[1])
            /\ read_result[1].file_after = read_result[1].file_before
    /\ (read_result # <<>> /\ read_result[1].op = "get_logs_by_model")
         => /\ IsMatchingSubsequence(read_result[1].result, read_result[1].store,
                                     "model_used", read_result[1].arg[1])
            /\ read_result[1].file_after = read_result[1].file_before

\* two stored entries of different risk levels, of which the filter
\* returned one
C18_Witness ==
    /\ read_result # <<>>
    /\ read_result[1].op = "get_logs_by_risk_level"
    /\ Len(read_result[1].store) = 2
    /\ Len(read_result[1].result) = 1
    /\ read_result[1].result[1].risk_level = read_result[1].arg[1]

\* what a read operation computes from a loaded list
ResultOn(op, arg, entries) ==
    CASE op = "get_recent_logs"        -> recent_of(entries, arg[1])
      [] op = "get_logs_by_risk_level" -> by_risk_level_of(entries, arg[1])
      [] op = "get_logs_by_model"      -> by_model_of(entries, arg[1])
      [] op = "get_statistics"         -> statistics_of(entries)

\* C19: a read that runs concurrently with an append returns a result
\* computed from the complete store before the append or the complete store
\* after it, never from a truncated or partly written store.
C19_ReadsSeeCompleteStore ==
    read_result # <<>>
    => \E entries \in read_result[1].snapshots :
           read_result[1].result = ResultOn(read_result[1].op, read_result[1].arg, entries)

\* the string call_groq / call_gemini define for a failed request
ApiErrorString(fn) ==
    (IF fn = "call_groq" THEN <<"[","G","r","o","q"," ","A","P","I"," ","e","r","r","o","r","]"," ">> ELSE <<"[","G","e","m","i","n","i"," ","A","P","I"," ","e","r","r","o","r","]"," ">>) \o ErrorText

FormRaised == pc = "form_done" /\ session_state.error = UnexpectedError(ExceptionText)

\* POST /prompt ended with the exception of classify_risk
ApiRaised == pc = "api_error"

C22_SameDetectorsInBothStages ==
    /\ redaction_patterns = patterns
    /\ redact_keywords_list = high_risk_keywords
    /\ redaction # <<>>
         => redaction[1].pii_redactions = analysis[1].pii_detected

\* a text on which two detectors fired in both stages
C22_Witness ==
    /\ redaction # <<>>
    /\ Len(analysis[1].pii_detected) >= 2
    /\ HasKey(redaction[1].pii_redactions, <<"s","s","n">>)
    /\ HasKey(analysis[1].pii_detected, <<"s","s","n">>)

\* the text entering the bare-keyword pass of redact_prompt(p): lines 77-79
EnteringThirdPass(p) == redact_secret_assignments(redact_pii(p)[1])

\* text with every '[REDACTED_KEYWORD]' taken out
OutsideKeywordMarkers(text) == Sub(Str(KeywordMarker), <<" ">>, text)

\* some high-risk keyword occurs in text, in any case
HasHighRiskKeyword(text) ==
    \E k \in 1..Len(high_risk_keywords) : Contains(Lower(text), high_risk_keywords[k])

\* C23: when the text entering the bare-keyword pass has no
\* '[REDACTED_KEYWORD]' or '[REDACTED_SECRET]', the output has no high-risk
\* keyword outside a marker; when it has one, the pass changes nothing.
C23_BareKeywordPass ==
    redaction # <<>>
    => \E entering \in {EnteringThirdPass(prompt)} :
          IF Contains(entering, KeywordMarker) \/ Contains(entering, SecretMarker)
          THEN redaction[1].redacted_prompt = entering
          ELSE ~HasHighRiskKeyword(OutsideKeywordMarkers(redaction[1].redacted_prompt))

RECURSIVE PiiReplacements(_, _, _)
\* the number of spans the re.sub calls of redact_pii replace, from the k-th
\* pattern on (redactor.py lines 33-38)
PiiReplacements(k, text, redacted_text) ==
    IF k > Len(redaction_patterns) THEN 0
    ELSE LET p == redaction_patterns[k]
         IN  IF FindAll(p.re, p.groups, text) # <<>>
             THEN Len(Matches(p.re, redacted_text, 1))
                  + PiiReplacements(k + 1, text, Sub(p.re, PiiMarker(p.name), redacted_text))
             ELSE PiiReplacements(k + 1, text, redacted_text)

RECURSIVE KeywordReplacements(_, _, _)
\* the number of spans the pattern.sub calls of redact_keywords replace, from
\* the k-th keyword on (redactor.py lines 49-57)
KeywordReplacements(k, text_lower, redacted_text) ==
    IF k > Len(redact_keywords_list) THEN 0
    ELSE LET keyword == redact_keywords_list[k]
         IN  IF Contains(redacted_text, KeywordMarker) \/ Contains(redacted_text, SecretMarker)
             THEN KeywordReplacements(k + 1, text_lower, redacted_text)
             ELSE IF Contains(text_lower, keyword)
             THEN Len(Matches(Str(keyword), redacted_text, 1))
                  + KeywordReplacements(k + 1, text_lower,
                                        Sub(Str(keyword), KeywordMarker, redacted_text))
             ELSE KeywordReplacements(k + 1, text_lower, redacted_text)

\* C24: total_redactions is the number of PII matches replaced plus the
\* number of bare-keyword replacements made.
C24_TotalCountsEveryReplacement ==
    redaction # <<>>
    => \E entering \in {EnteringThirdPass(prompt)} :
          redaction[1].total_redactions
            = PiiReplacements(1, prompt, prompt)
              + KeywordReplacements(1, Lower(entering), entering)

\* C25: when should_block_prompt blocks, its reason is not empty, names
\* every PII detector and every high-risk keyword that fired, and joins the
\* PII part and the keyword part with '; '; when it does not block, the reason
\* is 'No high-risk content detected' and no ssn / credit_card finding fired.
C25_BlockReason ==
    block # <<>>
    => LET pii == analysis[1].pii_detected
           high == analysis[1].keywords_found.high
           reason == block[1][2]
       IN  IF block[1][1]
           THEN /\ reason # <<>>
                /\ \A k \in 1..Len(pii) : Contains(reason, pii[k].name)
                /\ \A k \in 1..Len(high) : Contains(reason, high[k])
                /\ (pii # <<>> /\ high # <<>>)
                     => /\ Contains(reason, <<"D","e","t","e","c","t","e","d"," ","P","I","I",":"," ">>)
                        /\ Contains(reason, <<";", " ">> \o <<"H","i","g","h","-","r","i","s","k"," ","k","e","y","w","o","r","d","s",":"," ">>)
           ELSE /\ reason = <<"N","o"," ","h","i","g","h","-","r","i","s","k"," ","c","o","n","t","e","n","t"," ","d","e","t","e","c","t","e","d">>
                /\ ~HasKey(pii, <<"s","s","n">>)
                /\ ~HasKey(pii, <<"c","r","e","d","i","t","_","c","a","r","d">>)

\* a blocked prompt on which an SSN and a high-risk keyword fired
C25_Witness ==
    /\ block # <<>>
    /\ block[1][1]
    /\ HasKey(analysis[1].pii_detected, <<"s","s","n">>)
    /\ analysis[1].keywords_found.high # <<>>
    /\ Contains(block[1][2], <<";", " ">>)

\* the PII findings of the analysis are exactly email and phone
EmailAndPhoneOnly ==
    /\ analysis # <<>>
    /\ Len(analysis[1].pii_detected) = 2
    /\ HasKey(analysis[1].pii_detected, <<"e","m","a","i","l">>)
    /\ HasKey(analysis[1].pii_detected, <<"p","h","o","n","e">>)

\* C26: for a prompt whose PII findings are exactly email and phone, the
\* risk is medium and the redacted text contains '[REDACTED_EMAIL]' and
\* '[REDACTED_PHONE]' and neither the email address nor the phone number.
C26_EmailAndPhoneAreRedacted ==
    (EmailAndPhoneOnly /\ redaction # <<>>)
    => /\ analysis[1].risk_level = "medium"
       /\ Contains(redaction[1].redacted_prompt, PiiMarker(<<"e","m","a","i","l">>))
       /\ Contains(redaction[1].redacted_prompt, PiiMarker(<<"p","h","o","n","e">>))
       /\ ~Contains(redaction[1].redacted_prompt, <<"a","@","b",".","c","o">>)
       /\ ~Contains(redaction[1].redacted_prompt, <<"5","5","5","-","1","2","3","-","4","5","6","7">>)

\* C27: every stored entry has should_block true exactly when its
\* risk_level is 'high', so the statistics' blocked_prompts is its count of
\* 'high' entries; was_redacted is true only for medium, unblocked entries.
C27_BlockedIffHighInEveryEntry ==
    /\ \A k \in 1..Len(logs) :
          /\ logs[k].should_block <=> (logs[k].risk_level = "high")
          /\ logs[k].was_redacted => (logs[k].risk_level = "medium" /\ ~logs[k].should_block)
    /\ statistics_of(logs).blocked_prompts
         = Cardinality({k \in 1..Len(logs) : logs[k].risk_level = "high"})

\* C28: a prompt analysed as low risk comes out of redact_prompt unchanged,
\* with total_redactions 0 and was_redacted false; a prompt that is medium
\* with a PII finding or a high-risk keyword comes out changed.
C28_ClassifierAndRedactorAgree ==
    (analysis # <<>> /\ redaction # <<>>)
    => /\ analysis[1].risk_level = "low"
            => /\ redaction[1].redacted_prompt = prompt
               /\ redaction[1].total_redactions = 0
               /\ ~redaction[1].was_redacted
       /\ (/\ analysis[1].risk_level = "medium"
           /\ \/ analysis[1].pii_detected # <<>>
              \/ analysis[1].keywords_found.high # <<>>)
            => redaction[1].redacted_prompt # prompt

\* the step is a call of the AdminAuth method op that changed something
AdminStep(op) ==
    /\ now' = now
    /\ admin_result' # <<>>
    /\ admin_result'[1].op = op

\* what one authenticate call on an existing user does to the user's record
LockoutStep ==
    LET username == admin_result'[1].username
        user == admin_config.admin_users[username]
        after == admin_config'.admin_users[username]
        locked == user.locked_until # <<>> /\ now < user.locked_until[1]
        expired == user.locked_until # <<>> /\ now >= user.locked_until[1]
        right == user.password_hash = hash_password(admin_result'[1].password)
        failures == (IF expired THEN 0 ELSE user.login_attempts) + 1
    IN  /\ locked => /\ ~admin_result'[1].success
                     /\ admin_config' = admin_config
        /\ (~locked /\ right) => /\ admin_result'[1].success
                                 /\ after.login_attempts = 0
                                 /\ after.locked_until = <<>>
        /\ (~locked /\ ~right) => /\ ~admin_result'[1].success
                                  /\ after.login_attempts = failures
                                  /\ after.locked_until
                                       = IF failures = 3 THEN <<now + 15>> ELSE <<>>
        /\ (after.locked_until # <<>> /\ after.locked_until # user.locked_until)
             <=> (~locked /\ ~right /\ failures = 3)

\* C29: an account is locked until now + 15 minutes exactly when a failed
\* password is the third since the last successful login or unlock; while
\* locked, authenticate fails even with the right password and changes
\* nothing; after expiry the count starts again from 0; a successful login
\* sets login_attempts to 0 and locked_until to None; login_attempts never
\* exceeds 3.
C29_AdminLockout ==
    /\ [](\A u \in DOMAIN admin_config.admin_users :
             admin_config.admin_users[u].login_attempts <= 3)
    /\ [][(/\ AdminStep("authenticate")
           /\ admin_result'[1].username \in DOMAIN admin_config.admin_users)
          => LockoutStep]_vars

\* the admin account is locked after three failures and has just refused
\* the right password
C29_Witness ==
    /\ admin_result # <<>>
    /\ admin_result[1].op = "authenticate"
    /\ admin_result[1].username = "admin"
    /\ ~admin_result[1].success
    /\ admin_config.admin_users["admin"].password_hash = hash_password(admin_result[1].password)
    /\ admin_config.admin_users["admin"].login_attempts = 3
    /\ admin_config.admin_users["admin"].locked_until # <<>>
    /\ now < admin_config.admin_users["admin"].locked_until[1]

\* the call that just returned failed and left the stored configuration as
\* it was
RefusedUnchanged ==
    /\ ~admin_result'[1].success
    /\ admin_config' = admin_config

\* C30: the user 'admin' always exists; delete_admin_user('admin'),
\* delete_admin_user of an unknown user, create_admin_user of an existing
\* username and change_password with a wrong old password return
\* success = false and leave the stored configuration unchanged.
C30_DefaultAdminIsKept ==
    /\ []("admin" \in DOMAIN admin_config.admin_users)
    /\ [][/\ (/\ AdminStep("delete_admin_user")
              /\ \/ admin_result'[1].username = "admin"
                 \/ admin_result'[1].username \notin DOMAIN admin_config.admin_users)
             => RefusedUnchanged
          /\ (/\ AdminStep("create_admin_user")
              /\ admin_result'[1].username \in DOMAIN admin_config.admin_users)
             => RefusedUnchanged
          /\ (/\ AdminStep("change_password")
              /\ admin_result'[1].username \in DOMAIN admin_config.admin_users
              /\ admin_config.admin_users[admin_result'[1].username].password_hash
                   # hash_password(admin_result'[1].password))
             => RefusedUnchanged]_vars

\* a second user exists and delete_admin_user('admin') has just been refused
C30_Witness ==
    /\ admin_result # <<>>
    /\ admin_result[1].op = "delete_admin_user"
    /\ admin_result[1].username = "admin"
    /\ ~admin_result[1].success
    /\ DOMAIN admin_config.admin_users = {"admin", "bob"}

====
